---- MODULE Spec2Model ----
(***************************************************************************)
(* Model of recent(1), src/recent.go: the Matcher (Match, Readdir, dostat) *)
(* over a small file tree, and the duration set-up of main                 *)
(* (overflowCheck, allZero, toDuration) in 64-bit arithmetic.              *)
(*                                                                         *)
(* Paths and names are sequences of one-character strings, so that         *)
(* filepath.Clean, filepath.Join and filepath.Base are computed.           *)
(* Times of the Matcher part are in hours.                                 *)
(***************************************************************************)
EXTENDS Integers, Sequences, FiniteSets, TLC

VARIABLES
    \* Matcher fields (src/recent.go:229-239)
    Invert, IncludeDots, NoSlash, Recent, Now,
    \* flag.Args() as handed to Match; empty means main calls Readdir(".")
    files,
    \* environment: which directory fails, and how
    fault,
    \* control: position in main/Match/Readdir
    pc, i, dname, pos,
    \* directory handles: d holds the handle Readdir's local refers to, open the
    \* descriptors not yet closed
    d, open,
    \* the callbacks' effects: Out calls and Log calls, in order
    out, log,
    \* history: every call of dostat, in order
    calls,
    \* main's duration set-up: the five uint flags, as given and as used
    given, cnt, dpc, RecentNs

mvars == <<Invert, IncludeDots, NoSlash, Recent, Now, files, fault,
           pc, i, dname, pos, d, open, out, log, calls>>
dvars == <<given, cnt, dpc, RecentNs>>
vars == <<mvars, dvars>>

----------------------------------------------------------------------------
(* Bounds of the model *)

MaxArgs == 2

\* the batch size Readdir asks the directory for
ReaddirN == 100

----------------------------------------------------------------------------
(* path/filepath on Unix, as used by dostat *)

Last(s) == s[Len(s)]
Front(s) == SubSeq(s, 1, Len(s) - 1)

RECURSIVE SplitAcc(_, _, _)
SplitAcc(s, cur, acc) ==
    IF s = <<>> THEN Append(acc, cur)
    ELSE IF Head(s) = "/" THEN SplitAcc(Tail(s), <<>>, Append(acc, cur))
    ELSE SplitAcc(Tail(s), Append(cur, Head(s)), acc)

\* the elements of a path between its separators (empty ones included)
Components(path) == SplitAcc(path, <<>>, <<>>)

RECURSIVE CleanElems(_, _, _)
CleanElems(comps, rooted, acc) ==
    IF comps = <<>> THEN acc
    ELSE LET c == Head(comps)
             rest == Tail(comps)
         IN  IF c = <<>> \/ c = <<".">> THEN CleanElems(rest, rooted, acc)
             ELSE IF c = <<".", ".">>
                  THEN IF acc # <<>> /\ Last(acc) # <<".", ".">>
                       THEN CleanElems(rest, rooted, Front(acc))
                       ELSE IF rooted THEN CleanElems(rest, rooted, acc)
                       ELSE CleanElems(rest, rooted, Append(acc, c))
             ELSE CleanElems(rest, rooted, Append(acc, c))

RECURSIVE JoinSlash(_)
JoinSlash(elems) ==
    IF elems = <<>> THEN <<>>
    ELSE IF Len(elems) = 1 THEN elems[1]
    ELSE elems[1] \o <<"/">> \o JoinSlash(Tail(elems))

\* filepath.Clean
Clean(path) ==
    IF path = <<>> THEN <<".">>
    ELSE LET rooted == path[1] = "/"
             body == JoinSlash(CleanElems(Components(path), rooted, <<>>))
         IN  IF rooted THEN <<"/">> \o body
             ELSE IF body = <<>> THEN <<".">> ELSE body

\* filepath.Join of two elements
Join(a, b) ==
    IF a = <<>> /\ b = <<>> THEN <<>>
    ELSE IF a = <<>> THEN Clean(b)
    ELSE IF b = <<>> THEN Clean(a)
    ELSE Clean(a \o <<"/">> \o b)

RECURSIVE StripSlashes(_)
StripSlashes(p) ==
    IF p # <<>> /\ Last(p) = "/" THEN StripSlashes(Front(p)) ELSE p

\* filepath.Base
Base(path) ==
    IF path = <<>> THEN <<".">>
    ELSE LET p == StripSlashes(path)
         IN  IF p = <<>> THEN <<"/">> ELSE Last(Components(p))

----------------------------------------------------------------------------
(* The file tree the program runs in (working directory "."):              *)
(*     .a  b  c/  c/d  c/e  c/.f  c/g/  c/g/h                              *)
(* after the package documentation's example, with a subdirectory added.   *)

N_dot == <<".">>
N_a   == <<".", "a">>
N_b   == <<"b">>
N_c   == <<"c">>
N_d   == <<"d">>
N_e   == <<"e">>
N_f   == <<".", "f">>
N_g   == <<"g">>
N_h   == <<"h">>
N_zz  == <<"z", "z">>

\* os.FileInfo of every entry, by its cleaned path: IsDir() and ModTime()
FS ==
    (N_dot :> [isDir |-> TRUE, mtime |-> 90]) @@
    (N_a :> [isDir |-> FALSE, mtime |-> 110]) @@
    (N_b :> [isDir |-> FALSE, mtime |-> -260]) @@
    (N_c :> [isDir |-> TRUE, mtime |-> 100]) @@
    (Join(N_c, N_d) :> [isDir |-> FALSE, mtime |-> 98]) @@
    (Join(N_c, N_e) :> [isDir |-> FALSE, mtime |-> -9000]) @@
    (Join(N_c, N_f) :> [isDir |-> FALSE, mtime |-> 52]) @@
    (Join(N_c, N_g) :> [isDir |-> TRUE, mtime |-> 76]) @@
    (Join(Join(N_c, N_g), N_h) :> [isDir |-> FALSE, mtime |-> 126])

\* the names a directory's enumeration yields, in its order
Children ==
    (N_dot :> <<N_a, N_b, N_c>>) @@
    (N_c :> <<N_d, N_e, N_f, N_g>>) @@
    (Join(N_c, N_g) :> <<N_h>>)

Dirs == DOMAIN Children

NoFault == [dir |-> <<>>, kind |-> "none", after |-> 0]

\* one directory may fail to open, or fail while being read after `after` entries
Faults ==
    {NoFault}
    \cup {[dir |-> dd, kind |-> "open", after |-> 0] : dd \in Dirs}
    \cup UNION {{[dir |-> dd, kind |-> "read", after |-> k] :
                    k \in 0..Len(Children[dd])} : dd \in Dirs}

\* os.Stat: does the lookup of the path succeed
StatOK(path) ==
    /\ path # <<>>
    /\ Clean(path) \in DOMAIN FS
    /\ (Last(path) = "/" => FS[Clean(path)].isDir)

\* os.Stat's FileInfo
Stat(path) == FS[Clean(path)]

\* os.Open of a directory
OpenOK(path) ==
    /\ StatOK(path)
    /\ ~(fault.kind = "open" /\ fault.dir = Clean(path))

\* how many entries the enumeration of a directory delivers before it ends
Delivered(path) ==
    IF fault.kind = "read" /\ fault.dir = Clean(path)
    THEN fault.after
    ELSE Len(Children[Clean(path)])

\* does the enumeration end with an error other than io.EOF
ReadFails(path) == fault.kind = "read" /\ fault.dir = Clean(path)

----------------------------------------------------------------------------
(* Matcher *)

Min(a, b) == IF a < b THEN a ELSE b

\* the values Init draws the Matcher's configuration and arguments from
RecentSet == {24, 48}
NowSet == {124}
ArgPaths == {N_b, N_a, N_c, N_c \o <<"/">>, Join(N_c, N_g), N_zz}
ArgLists == UNION {[1..n -> ArgPaths] : n \in 0..MaxArgs}

\* Readdir's local d refers to no handle
\* the directories a run over the arguments opens; a fault of any other
\* directory is never met
Scanned(list) ==
    IF list = <<>> THEN {N_dot}
    ELSE {Clean(list[k]) : k \in {n \in 1..Len(list) : StatOK(list[n])}} \cap Dirs

NoHandle == {}

\* mutant: the dot filter applied to explicitly named entries too
DotFilteredExplicitToo(skipdotcheck, name) ==
    ~IncludeDots /\ Base(name)[1] = "."

\* mutant: the dot filter with the sense of IncludeDots inverted
DotFilteredFlagInverted(skipdotcheck, name) ==
    ~skipdotcheck /\ IncludeDots /\ Base(name)[1] = "."

\* dostat's early return: the entry is dropped by the dot filter
DotFiltered(skipdotcheck, name) ==
    ~skipdotcheck /\ ~IncludeDots /\ Base(name)[1] = "."

\* mutant: an age equal to the threshold counts as recent
HitAtThreshold(fi) ==
    LET hit == Now - fi.mtime <= Recent
    IN  IF Invert THEN ~hit ELSE hit

\* dostat's hit, after Invert
Hit(fi) ==
    LET hit == Now - fi.mtime < Recent
    IN  IF Invert THEN ~hit ELSE hit

\* mutant: NoSlash ignored
SlashSuffixAlways(fi) == IF fi.isDir THEN <<"/">> ELSE <<>>

\* what dostat appends to the cleaned name
SlashSuffix(fi) == IF fi.isDir /\ ~NoSlash THEN <<"/">> ELSE <<>>

\* the name dostat hands to Out
DisplayName(prefix, name, fi) == Clean(Join(prefix, name)) \o SlashSuffix(fi)

\* the Out calls of one dostat call (none or one), with the entry and the
\* argument index they come from
Dostat(skipdotcheck, prefix, name, fi, entry, idx) ==
    IF DotFiltered(skipdotcheck, name) THEN <<>>
    ELSE IF Hit(fi)
         THEN <<[name |-> DisplayName(prefix, name, fi), idx |-> idx, entry |-> entry]>>
         ELSE <<>>

CallRec(skipdotcheck, prefix, name, entry, idx) ==
    [skip |-> skipdotcheck, prefix |-> prefix, name |-> name, entry |-> entry, idx |-> idx]

\* Readdir's inner loop over one batch of entries of directory dn
RECURSIVE BatchOut(_, _, _)
BatchOut(names, dn, idx) ==
    IF names = <<>> THEN <<>>
    ELSE LET entry == Join(Clean(dn), Head(names))
         IN  Dostat(FALSE, dn, Head(names), FS[entry], entry, idx)
             \o BatchOut(Tail(names), dn, idx)

BatchCalls(names, dn, idx) ==
    [k \in 1..Len(names) |->
        CallRec(FALSE, dn, names[k], Join(Clean(dn), names[k]), idx)]

\* mutant: a directory argument classified like a file
IsDirArgNever(fi) == FALSE

\* Match's test of the looked-up entry: read it as a directory
IsDirArg(fi) == fi.isDir

\* mutant: a failed lookup ends the loop
AfterStatErrorBreak(idx) == Len(files) + 1

\* Match's loop after a failed lookup: continue with the next path
AfterStatError(idx) == idx + 1

\* where control goes when the work for index idx is over
Resume(next) ==
    IF next = 0 \/ next > Len(files)
    THEN pc' = "done" /\ i' = next
    ELSE pc' = "match" /\ i' = next

\* Readdir's os.Open of dn, called for index idx
ReaddirOpen(dn, idx) ==
    IF OpenOK(dn)
    THEN /\ d' = {idx}
         /\ open' = open \cup {idx}
         /\ dname' = dn
         /\ pos' = 0
         /\ pc' = "readdir"
         /\ i' = idx
         /\ UNCHANGED log
    ELSE /\ log' = Append(log, [idx |-> idx, op |-> "open", path |-> dn])
         /\ Resume(IF idx = 0 THEN 0 ELSE idx + 1)
         /\ UNCHANGED <<d, open, dname, pos>>

MInit ==
    /\ Invert \in BOOLEAN
    /\ IncludeDots \in BOOLEAN
    /\ NoSlash \in BOOLEAN
    /\ Recent \in RecentSet
    /\ Now \in NowSet
    /\ files \in ArgLists
    /\ fault \in {f \in Faults : f = NoFault \/ f.dir \in Scanned(files)}
    /\ pc = "main"
    /\ i = 0
    /\ dname = <<>>
    /\ pos = 0
    /\ d = NoHandle
    /\ open = {}
    /\ out = <<>>
    /\ log = <<>>
    /\ calls = <<>>

\* main's dispatch: Match over the arguments
MainMatch ==
    /\ pc = "main"
    /\ files # <<>>
    /\ pc' = "match"
    /\ i' = 1
    /\ UNCHANGED <<Invert, IncludeDots, NoSlash, Recent, Now, files, fault,
                   dname, pos, d, open, out, log, calls>>
    /\ UNCHANGED dvars

\* main's dispatch: Readdir(".") when there are no arguments
MainReaddir ==
    /\ pc = "main"
    /\ files = <<>>
    /\ ReaddirOpen(N_dot, 0)
    /\ UNCHANGED <<Invert, IncludeDots, NoSlash, Recent, Now, files, fault,
                   out, calls>>
    /\ UNCHANGED dvars

\* one iteration of Match's loop whose os.Stat fails
MatchStatError ==
    /\ pc = "match"
    /\ ~StatOK(files[i])
    /\ log' = Append(log, [idx |-> i, op |-> "stat", path |-> files[i]])
    /\ Resume(AfterStatError(i))
    /\ UNCHANGED <<Invert, IncludeDots, NoSlash, Recent, Now, files, fault,
                   dname, pos, d, open, out, calls>>
    /\ UNCHANGED dvars

\* one iteration of Match's loop on a non-directory: dostat(true, "", file, fi)
MatchFile ==
    /\ pc = "match"
    /\ StatOK(files[i])
    /\ ~IsDirArg(Stat(files[i]))
    /\ out' = out \o Dostat(TRUE, <<>>, files[i], Stat(files[i]), Clean(files[i]), i)
    /\ calls' = Append(calls, CallRec(TRUE, <<>>, files[i], Clean(files[i]), i))
    /\ Resume(i + 1)
    /\ UNCHANGED <<Invert, IncludeDots, NoSlash, Recent, Now, files, fault,
                   dname, pos, d, open, log>>
    /\ UNCHANGED dvars

\* one iteration of Match's loop on a directory: Readdir(file), up to its os.Open
MatchDir ==
    /\ pc = "match"
    /\ StatOK(files[i])
    /\ IsDirArg(Stat(files[i]))
    /\ ReaddirOpen(files[i], i)
    /\ UNCHANGED <<Invert, IncludeDots, NoSlash, Recent, Now, files, fault,
                   out, calls>>
    /\ UNCHANGED dvars

\* Readdir returns: its local d goes out of scope; nothing closes the handle
ReaddirReturn ==
    /\ d' = NoHandle
    /\ Resume(IF i = 0 THEN 0 ELSE i + 1)
    /\ UNCHANGED <<open, dname>>

\* one iteration of Readdir's loop: d.Readdir(100) yields n entries and no error
ReadBatch ==
    /\ pc = "readdir"
    /\ \E n \in 1..Min(Delivered(dname) - pos, ReaddirN) :
         LET names == SubSeq(Children[Clean(dname)], pos + 1, pos + n)
         IN  /\ out' = out \o BatchOut(names, dname, i)
             /\ calls' = calls \o BatchCalls(names, dname, i)
             /\ pos' = pos + n
    /\ UNCHANGED <<Invert, IncludeDots, NoSlash, Recent, Now, files, fault,
                   pc, i, dname, d, open, log>>
    /\ UNCHANGED dvars

\* d.Readdir(100) yields the last n entries before a failure, with the error
ReadBatchError ==
    /\ pc = "readdir"
    /\ ReadFails(dname)
    /\ Delivered(dname) - pos \in 0..ReaddirN
    /\ LET names == SubSeq(Children[Clean(dname)], pos + 1, Delivered(dname))
       IN  /\ out' = out \o BatchOut(names, dname, i)
           /\ calls' = calls \o BatchCalls(names, dname, i)
           /\ pos' = Delivered(dname)
    /\ log' = Append(log, [idx |-> i, op |-> "readdir", path |-> dname])
    /\ ReaddirReturn
    /\ UNCHANGED <<Invert, IncludeDots, NoSlash, Recent, Now, files, fault>>
    /\ UNCHANGED dvars

\* d.Readdir(100) yields no entry and io.EOF
ReadEOF ==
    /\ pc = "readdir"
    /\ ~ReadFails(dname)
    /\ pos = Delivered(dname)
    /\ ReaddirReturn
    /\ UNCHANGED <<Invert, IncludeDots, NoSlash, Recent, Now, files, fault,
                   pos, out, log, calls>>
    /\ UNCHANGED dvars

\* the runtime's finalizer of an os.File no variable refers to any more
\* closes its descriptor, at a time of the collector's choosing
Finalize ==
    /\ \E h \in open \ d : open' = open \ {h}
    /\ UNCHANGED <<Invert, IncludeDots, NoSlash, Recent, Now, files, fault,
                   pc, i, dname, pos, d, out, log, calls>>
    /\ UNCHANGED dvars

DIdle ==
    /\ given = <<>>
    /\ cnt = <<>>
    /\ dpc = "idle"
    /\ RecentNs = <<>>

Init == MInit /\ DIdle

Next ==
    \/ MainMatch
    \/ MainReaddir
    \/ MatchStatError
    \/ MatchFile
    \/ MatchDir
    \/ ReadBatch
    \/ ReadBatchError
    \/ ReadEOF
    \/ Finalize

Spec == Init /\ [][Next]_vars

----------------------------------------------------------------------------
(* 64-bit arithmetic: a number is a sequence of limbs, least significant   *)
(* first, each in 0..LimbBase-1. A uint or a time.Duration is WordLimbs    *)
(* limbs wide and wraps; the exact value of an expression is computed      *)
(* WideLimbs limbs wide, where nothing of this program wraps.              *)

LimbBase == 2 ^ 8
WordLimbs == 64 \div 8
WideLimbs == 2 * WordLimbs + 1

Limb(a, k) == IF k \in 1..Len(a) THEN a[k] ELSE 0

RECURSIVE NatL(_)
NatL(n) == IF n = 0 THEN <<>> ELSE <<n % LimbBase>> \o NatL(n \div LimbBase)

\* carry propagation over column sums cols[k..w], the carry out of limb w dropped
RECURSIVE Carry(_, _, _, _)
Carry(cols, k, c, w) ==
    IF k > w THEN <<>>
    ELSE <<(cols[k] + c) % LimbBase>> \o Carry(cols, k + 1, (cols[k] + c) \div LimbBase, w)

\* a + b modulo LimbBase^w
AddL(a, b, w) == Carry([k \in 1..w |-> Limb(a, k) + Limb(b, k)], 1, 0, w)

RECURSIVE ColSum(_, _, _, _)
ColSum(a, b, k, j) ==
    IF j > k THEN 0 ELSE Limb(a, j) * Limb(b, k + 1 - j) + ColSum(a, b, k, j + 1)

\* a * b modulo LimbBase^w
MulL(a, b, w) == Carry([k \in 1..w |-> ColSum(a, b, k, 1)], 1, 0, w)

\* a / c for a small c (long division from the top limb), as w limbs
RECURSIVE DivStep(_, _, _, _)
DivStep(a, c, k, r) ==
    IF k = 0 THEN <<>>
    ELSE DivStep(a, c, k - 1, (r * LimbBase + Limb(a, k)) % c)
         \o <<(r * LimbBase + Limb(a, k)) \div c>>

DivL(a, c, w) == DivStep(a, c, w, 0)

\* a <= b, both read as unsigned numbers
RECURSIVE LeqFrom(_, _, _)
LeqFrom(a, b, k) ==
    IF k = 0 THEN TRUE
    ELSE IF Limb(a, k) # Limb(b, k) THEN Limb(a, k) < Limb(b, k)
    ELSE LeqFrom(a, b, k - 1)

LeqL(a, b) == LeqFrom(a, b, WideLimbs)

Wide(a) == [k \in 1..WideLimbs |-> Limb(a, k)]
Word(a) == [k \in 1..WordLimbs |-> Limb(a, k)]

\* the sign bit of an int64
Negative(a) == Limb(a, WordLimbs) >= LimbBase \div 2

\* the largest uint
MaxUint == [k \in 1..WordLimbs |-> LimbBase - 1]

----------------------------------------------------------------------------
(* main's duration set-up *)

\* overflowCheck's divisors and limit
MonthsPerYear == 12
DaysPerYear == 365
HoursPerDay == 24
MinutesPerHour == 60
YearLimit == 290

\* the year equivalents overflowCheck adds up
YearParts(c) ==
    <<Word(c.years),
      DivL(c.months, MonthsPerYear, WordLimbs),
      DivL(c.days, DaysPerYear, WordLimbs),
      DivL(c.hours, HoursPerDay * DaysPerYear, WordLimbs),
      DivL(c.mins, MinutesPerHour * HoursPerDay * DaysPerYear, WordLimbs)>>

RECURSIVE SumL(_, _)
SumL(parts, w) ==
    IF parts = <<>> THEN NatL(0) ELSE AddL(Head(parts), SumL(Tail(parts), w), w)

\* overflowCheck: does it return (rather than log.Fatal); y+M+d+h+m is uint arithmetic
OverflowCheckPasses(c) == LeqL(SumL(YearParts(c), WordLimbs), NatL(YearLimit))

\* allZero
AllZero(c) ==
    \A f \in {"years", "months", "days", "hours", "mins"} : Word(c[f]) = Word(NatL(0))

\* package time's constants, as int64 nanoseconds
Second == MulL(NatL(1000), MulL(NatL(1000), NatL(1000), WordLimbs), WordLimbs)
Minute == MulL(NatL(60), Second, WordLimbs)
Hour == MulL(NatL(60), Minute, WordLimbs)

\* toDuration's constants
DayNs == MulL(NatL(24), Hour, WordLimbs)
MonthNs == MulL(NatL(30), DayNs, WordLimbs)
YearNs == MulL(NatL(365), DayNs, WordLimbs)

\* toDuration computed w limbs wide: w = WordLimbs is the program's int64
DurationOf(c, w) ==
    LET d1 == MulL(YearNs, c.years, w)
        d2 == AddL(d1, MulL(MonthNs, c.months, w), w)
        d3 == AddL(d2, MulL(DayNs, c.days, w), w)
        d4 == AddL(d3, MulL(Hour, c.hours, w), w)
    IN  AddL(d4, MulL(Minute, c.mins, w), w)

\* toDuration
ToDuration(c) == DurationOf(c, WordLimbs)

\* the values Init draws the five counts from
YearsSet == {NatL(0), NatL(1), NatL(290), NatL(291), MaxUint}
MonthsSet == {NatL(0), NatL(11), NatL(12)}
DaysSet == {NatL(0), NatL(1), NatL(364), NatL(365)}
HoursSet == {NatL(0), NatL(8759)}
MinsSet == {NatL(0), NatL(525599), NatL(525600)}

Counts ==
    {[years |-> Word(y), months |-> Word(mo), days |-> Word(dy),
      hours |-> Word(h), mins |-> Word(mi)] :
        y \in YearsSet, mo \in MonthsSet, dy \in DaysSet, h \in HoursSet, mi \in MinsSet}

DInit ==
    /\ given \in Counts
    /\ cnt = given
    /\ dpc = "parsed"
    /\ RecentNs = <<>>

\* overflowCheck returns
OverflowCheckOK ==
    /\ dpc = "parsed"
    /\ OverflowCheckPasses(cnt)
    /\ dpc' = "checked"
    /\ UNCHANGED <<given, cnt, RecentNs>>
    /\ UNCHANGED mvars

\* overflowCheck calls log.Fatal: the process ends
OverflowCheckFatal ==
    /\ dpc = "parsed"
    /\ ~OverflowCheckPasses(cnt)
    /\ dpc' = "fatal"
    /\ UNCHANGED <<given, cnt, RecentNs>>
    /\ UNCHANGED mvars

\* main's default: with all five counts zero, *days = 1
DefaultDay ==
    /\ dpc = "checked"
    /\ cnt' = IF AllZero(cnt) THEN [cnt EXCEPT !.days = Word(NatL(1))] ELSE cnt
    /\ dpc' = "defaulted"
    /\ UNCHANGED <<given, RecentNs>>
    /\ UNCHANGED mvars

\* matcher.Recent = toDuration(years, months, days, hours, mins)
Configure ==
    /\ dpc = "defaulted"
    /\ RecentNs' = ToDuration(cnt)
    /\ dpc' = "configured"
    /\ UNCHANGED <<given, cnt>>
    /\ UNCHANGED mvars

MIdle ==
    /\ Invert = FALSE
    /\ IncludeDots = FALSE
    /\ NoSlash = FALSE
    /\ Recent = 0
    /\ Now = 0
    /\ files = <<>>
    /\ fault = NoFault
    /\ pc = "idle"
    /\ i = 0
    /\ dname = <<>>
    /\ pos = 0
    /\ d = NoHandle
    /\ open = {}
    /\ out = <<>>
    /\ log = <<>>
    /\ calls = <<>>

DurInit == DInit /\ MIdle

DurNext ==
    \/ OverflowCheckOK
    \/ OverflowCheckFatal
    \/ DefaultDay
    \/ Configure

\* the run of main from flag.Parse to the configured Matcher
DurSpec == DurInit /\ [][DurNext]_vars

----------------------------------------------------------------------------
(* Claims about the duration set-up, checked under DurSpec *)

\* the exact year-equivalent sum and the exact duration of five counts
ExactYearSum(c) == SumL(YearParts(c), WideLimbs)
ExactDuration(c) == DurationOf(c, WideLimbs)

\* C6: overflowCheck accepts the counts iff the year-equivalent sum
\* years + months/12 + days/365 + hours/8760 + minutes/525600 is at most 290.
C6_AcceptIffAtMost290 ==
    /\ dpc \in {"checked", "defaulted", "configured"}
          => LeqL(ExactYearSum(given), NatL(290))
    /\ dpc = "fatal" => ~LeqL(ExactYearSum(given), NatL(290))

\* C7: for accepted counts the int64 threshold equals the exact sum
\* years*365d + months*30d + days*24h + hours*1h + minutes*1min, not wrapped
\* and not negative.
C7_NoOverflow ==
    dpc = "configured" =>
        /\ Wide(RecentNs) = ExactDuration(cnt)
        /\ ~Negative(RecentNs)

\* one day, 86400 seconds, in nanoseconds
OneDay == MulL(NatL(86400), NatL(10 ^ 9), WideLimbs)

\* C8: with all five counts zero the threshold is exactly one day; otherwise
\* it is exactly the sum of the given counts times their factors.
C8_DefaultOneDay ==
    dpc = "configured" =>
        IF AllZero(given)
        THEN Wide(RecentNs) = OneDay
        ELSE Wide(RecentNs) = ExactDuration(given) /\ ~Negative(RecentNs)

----------------------------------------------------------------------------
(* Claims about the Matcher, checked under Spec *)

\* the classification rule in the specification's words
Rule(entry) == (Now - FS[entry].mtime < Recent) # Invert

\* how many Out calls a dostat call led to
Emitted(c) ==
    Cardinality({k \in DOMAIN out : out[k].idx = c.idx /\ out[k].entry = c.entry})

\* the arguments Match's loop is done with
Processed(idx) == idx \in 1..Len(files) /\ idx < i

OutsOf(idx) == {k \in DOMAIN out : out[k].idx = idx}
CallsOf(idx) == {k \in DOMAIN calls : calls[k].idx = idx}
LogsOf(idx) == {k \in DOMAIN log : log[k].idx = idx}

\* C1: every entry handed to dostat and not dropped by the dot filter is
\* emitted exactly once when (Now - modTime < Recent) XOR Invert, and not at
\* all otherwise.
C1_Classification ==
    \A k \in DOMAIN calls :
        LET c == calls[k]
            dropped == ~c.skip /\ ~IncludeDots /\ Head(c.name) = "."
        IN  ~dropped => Emitted(c) = (IF Rule(c.entry) THEN 1 ELSE 0)

\* an entry whose age equals the threshold is emitted under Invert
C1_Witness ==
    /\ Invert
    /\ \E k \in DOMAIN out : Now - FS[out[k].entry].mtime = Recent

\* C2: a non-directory argument of Match whose name begins with '.' is
\* emitted iff it satisfies the classification rule, whatever IncludeDots is.
C2_ExplicitDotNotFiltered ==
    \A idx \in 1..Len(files) :
        (/\ Processed(idx)
         /\ StatOK(files[idx])
         /\ ~Stat(files[idx]).isDir
         /\ Head(Base(files[idx])) = ".")
        => (OutsOf(idx) # {} <=> Rule(Clean(files[idx])))

\* the argument .a is emitted with IncludeDots off
C2_Witness ==
    /\ ~IncludeDots
    /\ \E k \in DOMAIN out :
          /\ out[k].idx >= 1
          /\ files[out[k].idx] = N_a
          /\ out[k].name = N_a

\* C3: in a directory scan a child whose name begins with '.' is never
\* emitted when IncludeDots is false and is emitted iff it satisfies the rule
\* when IncludeDots is true; other children are emitted iff they satisfy the
\* rule, whatever IncludeDots is.
C3_ScanDotFilter ==
    \A k \in DOMAIN calls :
        LET c == calls[k]
        IN  ~c.skip =>
              IF Head(c.name) = "." /\ ~IncludeDots
              THEN Emitted(c) = 0
              ELSE Emitted(c) = (IF Rule(c.entry) THEN 1 ELSE 0)

\* a dot-named child was enumerated with IncludeDots off and would have been
\* a hit, and a sibling of it was emitted
C3_Witness ==
    /\ ~IncludeDots
    /\ \E k \in DOMAIN calls :
          /\ ~calls[k].skip
          /\ Head(calls[k].name) = "."
          /\ Rule(calls[k].entry)
          /\ OutsOf(calls[k].idx) # {}

\* C4: an emitted name ends with '/' iff its entry is a directory and
\* NoSlash is false.
C4_TrailingSlash ==
    \A k \in DOMAIN out :
        (Last(out[k].name) = "/") <=> (FS[out[k].entry].isDir /\ ~NoSlash)

\* a directory was emitted with the separator appended
C4_Witness ==
    \E k \in DOMAIN out :
        /\ FS[out[k].entry].isDir
        /\ ~NoSlash
        /\ out[k].name = Join(N_c, N_g) \o <<"/">>

\* the paths of the immediate children of a directory argument
ChildPaths(path) ==
    {Join(Clean(path), Children[Clean(path)][n]) :
        n \in 1..Len(Children[Clean(path)])}

\* C5: for a directory argument of Match the directory itself is never
\* emitted; only its immediate children are classified, with the argument
\* as prefix and under the dot filter, each at most once; all of them are
\* when the enumeration ends without error; an emitted name lies exactly one
\* level below the argument.
C5_DirectoryArgument ==
    \A idx \in 1..Len(files) :
        (StatOK(files[idx]) /\ Stat(files[idx]).isDir) =>
            /\ \A k \in OutsOf(idx) :
                  /\ out[k].entry # Clean(files[idx])
                  /\ out[k].entry \in ChildPaths(files[idx])
                  /\ \E nm \in {Children[Clean(files[idx])][n] :
                                   n \in 1..Len(Children[Clean(files[idx])])} :
                        out[k].name \in
                            {Clean(files[idx]) \o <<"/">> \o nm,
                             Clean(files[idx]) \o <<"/">> \o nm \o <<"/">>}
            /\ \A k \in CallsOf(idx) :
                  /\ ~calls[k].skip
                  /\ calls[k].prefix = files[idx]
                  /\ calls[k].entry \in ChildPaths(files[idx])
                  /\ \A k2 \in CallsOf(idx) :
                        calls[k2].entry = calls[k].entry => k2 = k
            /\ (Processed(idx) /\ OpenOK(files[idx]) /\ ~ReadFails(files[idx]))
                  => {calls[k].entry : k \in CallsOf(idx)} = ChildPaths(files[idx])

\* a directory argument that itself satisfies the rule was scanned to the
\* end, a child of it emitted
C5_Witness ==
    \E idx \in 1..Len(files) :
        /\ fault = NoFault
        /\ Processed(idx)
        /\ StatOK(files[idx])
        /\ Stat(files[idx]).isDir
        /\ Rule(Clean(files[idx]))
        /\ OutsOf(idx) # {}
        /\ Cardinality(CallsOf(idx)) > 1

\* Readdir's Out calls for a path, as a function of the path alone
ScanOf(path) ==
    IF OpenOK(path)
    THEN BatchOut(SubSeq(Children[Clean(path)], 1, Delivered(path)), path, 0)
    ELSE <<>>

\* the Out calls of one successfully looked-up argument
PathOf(path) ==
    IF Stat(path).isDir THEN ScanOf(path)
    ELSE Dostat(TRUE, <<>>, path, Stat(path), Clean(path), 0)

RECURSIVE RunOf(_)
RunOf(list) == IF list = <<>> THEN <<>> ELSE PathOf(Head(list)) \o RunOf(Tail(list))

Names(recs) == [k \in DOMAIN recs |-> recs[k].name]

\* C9: in Match every path whose lookup fails leads to exactly one Log call
\* (for that lookup) and to no Out call and no classification; the loop
\* visits every path of the list, in order; and the emitted names are those
\* of a run over the list with the failing paths removed.
C9_LookupFailureSkipsPath ==
    /\ \A idx \in 1..Len(files) :
          (Processed(idx) /\ ~StatOK(files[idx])) =>
              /\ Cardinality(LogsOf(idx)) = 1
              /\ \A k \in LogsOf(idx) : log[k].op = "stat" /\ log[k].path = files[idx]
              /\ OutsOf(idx) = {}
              /\ CallsOf(idx) = {}
    /\ \A k \in DOMAIN out : \A k2 \in DOMAIN out : k < k2 => out[k].idx <= out[k2].idx
    /\ (pc = "done" /\ files # <<>>) =>
          Names(out) = Names(RunOf(SelectSeq(files, StatOK)))

\* the first path failed and the one after it was emitted
C9_Witness ==
    /\ pc = "done"
    /\ Len(files) = 2
    /\ ~StatOK(files[1])
    /\ LogsOf(1) # {}
    /\ OutsOf(2) # {}

\* C10: at most one directory handle is open at any time, none while Match
\* is between two paths, and none after Match or Readdir has returned.
C10_HandlesReleased ==
    /\ Cardinality(open) <= 1
    /\ pc \in {"match", "done"} => open = {}

====
